---- MODULE Spec2Model ----
(***************************************************************************)
(* Model of dnd-core.mjs: the drag-and-drop gesture controller.            *)
(*                                                                         *)
(* The module's memory (state, current, initial, defer, detach, style) and *)
(* the parts of the host it touches (document.body.style, the window's and *)
(* the elements' listener tables, the host's timer table) are the          *)
(* variables.  Every function of the source is an operator from a world    *)
(* record to a world record, so that a handler that calls another handler  *)
(* (start -> cancel -> dispatch, cleanup; the timer callback -> move) is   *)
(* the composition the source performs.  One action is one host event,     *)
(* delivered to every listener the host would call for it, in order.       *)
(***************************************************************************)
EXTENDS Integers, Sequences, FiniteSets, TLC

\* ------------------------------------------------------------------ bounds

\* Pointer coordinates of the events are drawn from -MaxCoord..MaxCoord.
MaxCoord == 1

Coord == (0 - MaxCoord)..MaxCoord

\* A pointer-down that would leave more than MaxTimers callbacks pending in the
\* host is not taken (with a non-null subject at most one is ever pending).
MaxTimers == 2

\* ------------------------------------------------------------ JS constants

null == "null"
\* JS undefined, as a coordinate or as a missing config field.
undefined == -1000
\* `let defer = null`: no timer handle.
NoTimer == 0
\* `let detach = 2`, and the value cleanup() puts back.
DefaultDetach == 2
\* `config.delay ?? 50`
DefaultDelay == 50

\* Subjects (props) of the surfaces; each surface has its own element.
Surfaces == {"a", "b"}

\* Time advances in steps of TickMs.
TickMs == 50

\* What draggable() may receive as config: undefined, an empty object, or an
\* object that sets both options.
NoConfig == [isObject |-> FALSE, delay |-> undefined, detach |-> undefined]
EmptyConfig == [isObject |-> TRUE, delay |-> undefined, detach |-> undefined]
Configs ==
    {NoConfig, EmptyConfig, [isObject |-> TRUE, delay |-> 0, detach |-> 3]}

\* Where a pointer may go down.
DownPoints == {<<0, 0>>, <<-1, -1>>}

StyleKeys == {"webkitUserSelect", "MozUserSelect", "msUserSelect", "userSelect"}

\* `let style = {...: "none"}`
NoneStyle == [k \in StyleKeys |-> "none"]

\* The body's inline selection styles as the application set them: a value
\* of its own under every key, so that a swap that mixes keys or values shows.
BodyStyle ==
    [k \in StyleKeys |->
        CASE k = "webkitUserSelect" -> "text"
          [] k = "MozUserSelect" -> ""
          [] k = "msUserSelect" -> "auto"
          [] k = "userSelect" -> "all"]

\* `export const state = {props: null, dx: 0, dy: 0, canceled: false}`
IdleState == [props |-> null, dx |-> 0, dy |-> 0, canceled |-> FALSE]

\* `const current = {x: undefined, y: undefined}` (and initial)
NoPoint == [x |-> undefined, y |-> undefined]

VARIABLES
    state,        \* exported state object
    current,      \* private: last pointer position
    initial,      \* private: pointer-down position
    defer,        \* private: timer handle or NoTimer
    detach,       \* private: movement threshold
    style,        \* private: the style slot toggleUserSelect swaps with the body
    body,         \* document.body.style, the four selection keys
    timers,       \* host: pending setTimeout callbacks
    window,       \* host: the window's listener table
    surf,         \* host: per surface, the bound fn and the element's listeners
    inited,       \* whether init() has returned a destructor
    trace,        \* what the last host event made the controller do, in order
    phase,        \* history: how far the current/last gesture has got
    bodyBefore,   \* history: body styles read when the last gesture started
    thrown,       \* the fault the last call raised, or "none"
    prevented,    \* the events the last step called preventDefault() on
    last          \* the last host event or API call

vars == <<state, current, initial, defer, detach, style, body, timers, window,
          surf, inited, trace, phase, bodyBefore, thrown, prevented, last>>

\* The world the source's functions read and write.
World ==
    [state |-> state, current |-> current, initial |-> initial,
     defer |-> defer, detach |-> detach, style |-> style, body |-> body,
     timers |-> timers, window |-> window, surf |-> surf, trace |-> <<>>,
     phase |-> phase, bodyBefore |-> bodyBefore, thrown |-> "none",
     prevented |-> {}, faulty |-> FALSE]

\* The world of a host event during which the observer's dispatchEvent
\* faults (f) or does not.
WorldWith(f) == [World EXCEPT !.faulty = f]

Store(w) ==
    /\ state' = w.state
    /\ current' = w.current
    /\ initial' = w.initial
    /\ defer' = w.defer
    /\ detach' = w.detach
    /\ style' = w.style
    /\ body' = w.body
    /\ timers' = w.timers
    /\ window' = w.window
    /\ surf' = w.surf
    /\ trace' = w.trace
    /\ phase' = w.phase
    /\ bodyBefore' = w.bodyBefore
    /\ thrown' = w.thrown
    /\ prevented' = w.prevented

\* Idle, Pending or Dragging, as the source tells them apart.
Mode(w) ==
    IF w.state.props = null THEN "Idle"
    ELSE IF w.defer # NoTimer THEN "Pending"
    ELSE "Dragging"

\* ------------------------------------------------------------------ events

\* A MouseEvent: the event itself carries clientX/clientY.
MouseEv(type, x, y) ==
    [type |-> type, isMouse |-> TRUE, clientX |-> x, clientY |-> y,
     touches |-> <<>>, changedTouches |-> <<>>]

\* A TouchEvent of one finger: touchend and touchcancel list the finger in
\* changedTouches only.
TouchEv(type, x, y) ==
    [type |-> type, isMouse |-> FALSE, clientX |-> undefined,
     clientY |-> undefined,
     touches |-> IF type \in {"touchend", "touchcancel"} THEN <<>>
                 ELSE <<[clientX |-> x, clientY |-> y]>>,
     changedTouches |-> <<[clientX |-> x, clientY |-> y]>>]

MouseTypes == {"mousemove", "mouseup", "contextmenu"}

Ev(type, x, y) ==
    IF type \in MouseTypes \cup {"mousedown"} THEN MouseEv(type, x, y)
    ELSE TouchEv(type, x, y)

\* --------------------------------------------------------- private section

getPointer(e) ==
    IF e.isMouse THEN [clientX |-> e.clientX, clientY |-> e.clientY]
    ELSE IF Len(e.touches) > 0 THEN e.touches[1]
    ELSE IF Len(e.changedTouches) > 0 THEN e.changedTouches[1]
    ELSE [clientX |-> undefined, clientY |-> undefined]

fill(e) ==
    LET p == getPointer(e) IN [x |-> p.clientX, y |-> p.clientY]

\* observer.dispatchEvent(new CustomEvent(type, {detail: state})): the
\* subscribers see the state object as it is at this point.
\* A fault of the dispatch leaves the function as an exception (thrown); what
\* the caller does with it is in the caller (try/finally in cancel and drop).
dispatch(w, type) ==
    [w EXCEPT !.trace = Append(@, [ev |-> type, detail |-> w.state]),
              !.phase = IF type = "dnd-drag" THEN "dragged" ELSE "dropped",
              !.thrown = IF w.faulty THEN "Error" ELSE @]

\* Mutant of toggleUserSelect: writes the slot to the body and forgets what the
\* body held.
toggleUserSelectNoSave(w) ==
    [w EXCEPT !.body = [key \in StyleKeys |-> w.style[key]]]

\* Swaps the style slot with the body's values, key by key.
toggleUserSelect(w) ==
    LET tmp == [key \in StyleKeys |-> w.body[key]] IN
    [w EXCEPT !.body = [key \in StyleKeys |-> w.style[key]],
              !.style = tmp]

\* Mutant of clearTimeout: the host keeps the callback.
clearTimeoutKeeps(ts, id) == ts

\* clearTimeout(id): a handle the host does not know is ignored.
clearTimeout(ts, id) == {t \in ts : t.id # id}

\* setTimeout: the host's next free handle.
NewTimerId(ts) ==
    CHOOSE i \in 1..(Cardinality(ts) + 1) : \A t \in ts : t.id # i

\* Mutant of cleanup: resets the subject and the delta, not the canceled flag.
cleanupKeepsCanceled(w) ==
    IF w.state.props = null THEN w
    ELSE
        LET w1 == toggleUserSelect(w) IN
        [w1 EXCEPT !.state = [IdleState EXCEPT !.canceled = w.state.canceled],
                   !.timers = clearTimeout(w1.timers, w1.defer),
                   !.defer = NoTimer,
                   !.initial = NoPoint,
                   !.current = NoPoint,
                   !.detach = DefaultDetach,
                   !.trace = Append(@, [ev |-> "cleanup", detail |-> IdleState]),
                   !.phase = "cleaned"]

cleanup(w) ==
    IF w.state.props = null THEN w
    ELSE
        LET w1 == toggleUserSelect(w) IN
        [w1 EXCEPT !.state = IdleState,
                   !.timers = clearTimeout(w1.timers, w1.defer),
                   !.defer = NoTimer,
                   !.initial = NoPoint,
                   !.current = NoPoint,
                   !.detach = DefaultDetach,
                   !.trace = Append(@, [ev |-> "cleanup", detail |-> IdleState]),
                   !.phase = "cleaned"]

\* Mutant of cancel: notifies and leaves the gesture as it is.
cancelNoCleanup(w) ==
    IF w.state.props = null THEN w
    ELSE dispatch([w EXCEPT !.state.canceled = TRUE], "dnd-drop")

\* Mutant of cancel: does not test whether a gesture is active.
cancelUnguarded(w) ==
    cleanup(dispatch([w EXCEPT !.state.canceled = TRUE], "dnd-drop"))

cancel(w) ==
    IF w.state.props = null THEN w
    ELSE cleanup(dispatch([w EXCEPT !.state.canceled = TRUE], "dnd-drop"))

\* The shape the mutants of move share: the delta is taken from `origin`, and
\* the timer is cleared when the threshold is reached only if `clear`.
moveFrom(w, e, origin, clear) ==
    LET cur == fill(e)
        w1 == [w EXCEPT !.prevented = IF e.isMouse
                                      THEN @
                                      ELSE @ \cup {[type |-> e.type,
                                                     isMouse |-> e.isMouse]},
                        !.current = cur,
                        !.state.dx = cur.x - origin.x,
                        !.state.dy = cur.y - origin.y]
    IN  IF w1.defer # NoTimer
        THEN IF w1.state.dx + w1.state.dy < w1.detach THEN w1
             ELSE dispatch([w1 EXCEPT !.timers = IF clear
                                                THEN clearTimeout(@, w1.defer)
                                                ELSE @,
                                      !.defer = NoTimer],
                           "dnd-drag")
        ELSE dispatch(w1, "dnd-drag")

\* Mutant of move: forgets clearTimeout() when the threshold starts the drag.
moveLeavesTimer(w, e) ==
    IF w.state.props = null THEN w
    ELSE moveFrom(w, e, w.initial, FALSE)

\* Mutant of move: the delta is taken from the position of the move before.
moveFromLastPosition(w, e) ==
    IF w.state.props = null THEN w
    ELSE moveFrom(w, e, IF w.current = NoPoint THEN w.initial ELSE w.current,
                  TRUE)

move(w, e) ==
    IF w.state.props = null THEN w
    ELSE
        LET cur == fill(e)
            w1 == [w EXCEPT !.prevented = IF e.isMouse THEN @
                                          ELSE @ \cup {[type |-> e.type,
                                                         isMouse |-> e.isMouse]},
                            !.current = cur,
                            !.state.dx = cur.x - w.initial.x,
                            !.state.dy = cur.y - w.initial.y]
        IN  IF w1.defer # NoTimer
            THEN IF w1.state.dx + w1.state.dy < w1.detach THEN w1
                 ELSE dispatch(
                        [w1 EXCEPT !.timers = clearTimeout(w1.timers, w1.defer),
                                   !.defer = NoTimer],
                        "dnd-drag")
            ELSE dispatch(w1, "dnd-drag")

start(w, props, delay, e) ==
    IF w.state.props # null THEN cancel(w)
    ELSE
        LET w1 == toggleUserSelect(w)
            id == NewTimerId(w1.timers)
        IN  [w1 EXCEPT !.state.props = props,
                       !.initial = fill(e),
                       !.defer = id,
                       !.timers = @ \cup {[id |-> id, e |-> e, delay |-> delay,
                                            elapsed |-> 0]},
                       !.trace = Append(@, [ev |-> "start", detail |-> w.state]),
                       !.phase = "started",
                       !.bodyBefore = w.body]

\* Mutant of the timer callback: calls move() with defer still set.
timeoutKeepsDefer(w, e) == move(w, e)

\* The callback start() hands to setTimeout.
timeout(w, e) == move([w EXCEPT !.defer = NoTimer], e)

\* Mutant of drop: notifies whether or not the drag had started.
dropAlwaysNotifies(w) ==
    IF w.state.props = null THEN w
    ELSE cleanup(dispatch(w, "dnd-drop"))

drop(w) ==
    IF w.state.props = null THEN w
    ELSE cleanup(IF w.defer = NoTimer THEN dispatch(w, "dnd-drop") ELSE w)

\* ------------------------------------------------------------ public API

Listener(type, fn, capture) == [type |-> type, fn |-> fn, capture |-> capture]

\* A listener is identified by type, callback and capture flag.
addEventListener(ls, type, fn, capture) == ls \cup {Listener(type, fn, capture)}
removeEventListener(ls, type, fn, capture) == ls \ {Listener(type, fn, capture)}

init(w) ==
    LET l1 == addEventListener(w.window, "mousemove", "move", TRUE)
        l2 == addEventListener(l1, "mouseup", "drop", FALSE)
        l3 == addEventListener(l2, "touchmove", "move", FALSE)
        l4 == addEventListener(l3, "touchend", "drop", FALSE)
        l5 == addEventListener(l4, "contextmenu", "cancel", FALSE)
        l6 == addEventListener(l5, "touchcancel", "cancel", FALSE)
        l7 == addEventListener(l6, "touchstart", "cancel", TRUE)
    IN  [w EXCEPT !.window = l7]

\* The function init() returns.
initDestructor(w) ==
    LET l1 == removeEventListener(w.window, "mousemove", "move", TRUE)
        l2 == removeEventListener(l1, "mouseup", "drop", FALSE)
        l3 == removeEventListener(l2, "touchmove", "move", FALSE)
        l4 == removeEventListener(l3, "touchend", "drop", FALSE)
        l5 == removeEventListener(l4, "touchstart", "cancel", FALSE)
    IN  [w EXCEPT !.window = l5]

NoSurface ==
    [attached |-> FALSE, props |-> null, delay |-> undefined,
     config |-> NoConfig, listeners |-> {}]

\* draggable(props, element, config); fn = start.bind(null, props, delay) is
\* kept as (props, delay) with the element, and the element's listeners of fn
\* as their types.
draggable(w, props, element, config) ==
    IF ~config.isObject THEN [w EXCEPT !.thrown = "TypeError"]
    ELSE
        LET delay == IF config.delay = undefined THEN DefaultDelay
                     ELSE config.delay
        IN  [w EXCEPT !.detach = IF config.detach = undefined THEN w.detach
                                 ELSE config.detach,
                      !.surf[element] =
                                      [attached |-> TRUE, props |-> props,
                                       delay |-> delay, config |-> config,
                                       listeners |-> {"mousedown", "touchstart"}]]

\* Mutant of the destructor: faults when its listeners are already gone.
draggableDestructorStrict(w, props) ==
    IF w.surf[props].listeners = {} THEN [w EXCEPT !.thrown = "Error"]
    ELSE [w EXCEPT !.surf[props].listeners = {}]

\* The function draggable() returns.
draggableDestructor(w, props) ==
    [w EXCEPT !.surf[props].listeners = @ \ {"mousedown", "touchstart"}]

\* ------------------------------------------------------- event delivery

Call(fn, w, e) ==
    CASE fn = "move" -> move(w, e)
      [] fn = "drop" -> drop(w)
      [] fn = "cancel" -> cancel(w)

\* The host calls every listener of a set, one after the other.
RECURSIVE CallAll(_, _, _)
CallAll(ls, w, e) ==
    IF ls = {} THEN w
    ELSE LET l == CHOOSE x \in ls : TRUE
         IN  CallAll(ls \ {l}, Call(l.fn, w, e), e)

WindowListeners(w, e, capture) ==
    {l \in w.window : l.type = e.type /\ l.capture = capture}

\* An event on the element of surface p: the window's capture listeners, then
\* the element's own listener fn, then the window's bubble listeners.
DeliverToSurface(w, p, e) ==
    LET w1 == CallAll(WindowListeners(w, e, TRUE), w, e)
        w2 == IF e.type \in w1.surf[p].listeners
              THEN start(w1, w1.surf[p].props, w1.surf[p].delay, e)
              ELSE w1
    IN  CallAll(WindowListeners(w2, e, FALSE), w2, e)

\* An event anywhere else in the document reaches the window's listeners.
DeliverToWindow(w, e) ==
    LET w1 == CallAll(WindowListeners(w, e, TRUE), w, e)
    IN  CallAll(WindowListeners(w1, e, FALSE), w1, e)

\* The record of a host event or API call: what it was, the mode it found,
\* whether move() had not yet run in the gesture it found, and whether it
\* repeats the destructor call made just before it.
Last(op, arg) ==
    [op |-> op, arg |-> arg, from |-> Mode(World),
     unmoved |-> (current = NoPoint),
     rep |-> (op \in {"teardown", "detach"} /\ last.op = op /\ last.arg = arg)]

\* ----------------------------------------------------------------- actions

Init ==
    /\ state = IdleState
    /\ current = NoPoint
    /\ initial = NoPoint
    /\ defer = NoTimer
    /\ detach = DefaultDetach
    /\ style = NoneStyle
    /\ body = BodyStyle
    /\ timers = {}
    /\ window = {}
    /\ surf = [p \in Surfaces |-> NoSurface]
    /\ inited = FALSE
    /\ trace = <<>>
    /\ phase = "none"
    /\ bodyBefore = body
    /\ thrown = "none"
    /\ prevented = {}
    /\ last = [op |-> "load", arg |-> "none", from |-> "Idle",
               unmoved |-> TRUE, rep |-> FALSE]

\* The application calls init().
CallInit ==
    /\ Store(init(World))
    /\ inited' = TRUE
    /\ last' = Last("init", "window")

\* The application calls a function init() returned.
Teardown ==
    /\ inited
    /\ Store(initDestructor(World))
    /\ last' = Last("teardown", "window")
    /\ UNCHANGED inited

\* The application calls draggable(p, element of p, config): the subject of a
\* surface is its name; every call is given an element of its own.
Attach(p, config) ==
    /\ ~surf[p].attached
    /\ Store(draggable(World, p, p, config))
    /\ last' = Last("draggable", p)
    /\ UNCHANGED inited

\* The application calls the function draggable() returned for p.
Detach(p) ==
    /\ surf[p].attached
    /\ Store(draggableDestructor(World, p))
    /\ last' = Last("detach", p)
    /\ UNCHANGED inited

\* mousedown or touchstart on the element of surface p.
PointerDown(p, type, pt, f) ==
    /\ LET w == DeliverToSurface(WorldWith(f), p, Ev(type, pt[1], pt[2]))
       IN  Cardinality(w.timers) <= MaxTimers /\ Store(w)
    /\ last' = Last(type, p)
    /\ UNCHANGED inited

\* mousemove or touchmove anywhere in the window.
PointerMove(type, x, y, f) ==
    /\ Store(DeliverToWindow(WorldWith(f), Ev(type, x, y)))
    /\ last' = Last(type, "window")
    /\ UNCHANGED inited

\* mouseup, touchend, contextmenu, touchcancel, or a touchstart outside the
\* surfaces; their handlers do not read the event.
WindowEvent(type, f) ==
    /\ Store(DeliverToWindow(WorldWith(f), Ev(type, 0, 0)))
    /\ last' = Last(type, "window")
    /\ UNCHANGED inited

\* Time passes while some timer is not yet due.
Tick ==
    /\ \E t \in timers : t.elapsed < t.delay
    /\ timers' = {IF t.elapsed < t.delay
                  THEN [t EXCEPT !.elapsed = @ + TickMs] ELSE t : t \in timers}
    /\ trace' = <<>>
    /\ thrown' = "none"
    /\ prevented' = {}
    /\ last' = Last("tick", "none")
    /\ UNCHANGED <<state, current, initial, defer, detach, style, body, window,
                   surf, inited, phase, bodyBefore>>

\* The host runs the callback of a timer that is due.
Timeout(t, f) ==
    /\ t.elapsed >= t.delay
    /\ Store(timeout([WorldWith(f) EXCEPT !.timers = @ \ {t}], t.e))
    /\ last' = Last("timeout", "none")
    /\ UNCHANGED inited

\* The application calls draggable(null, element of p, {}).
AttachNull(p) ==
    /\ ~surf[p].attached
    /\ Store(draggable(World, null, p, EmptyConfig))
    /\ last' = Last("draggable", p)
    /\ UNCHANGED inited

\* The host events, with the observer's dispatch faulting or not (faults).
Events(faults) ==
    \/ \E p \in Surfaces, type \in {"mousedown", "touchstart"},
          pt \in DownPoints, f \in faults : PointerDown(p, type, pt, f)
    \/ \E type \in {"mousemove", "touchmove"}, x \in Coord, y \in Coord,
          f \in faults : PointerMove(type, x, y, f)
    \/ \E type \in {"mouseup", "touchend", "contextmenu", "touchcancel",
                    "touchstart"}, f \in faults : WindowEvent(type, f)
    \/ Tick
    \/ \E t \in timers, f \in faults : Timeout(t, f)

\* The API calls of an application that gives every surface a subject.
Calls ==
    \/ CallInit
    \/ Teardown
    \/ \E p \in Surfaces, config \in Configs : Attach(p, config)
    \/ \E p \in Surfaces : Detach(p)

Next == Calls \/ Events({FALSE})

Spec == Init /\ [][Next]_vars

\* The same program with an observer whose dispatch may fault.
NextFaulty == Calls \/ Events(BOOLEAN)

SpecFaulty == Init /\ [][NextFaulty]_vars

\* The program of an application that may pass null as a subject (and uses
\* neither a config nor the destructors).
NextAnySubject ==
    \/ CallInit
    \/ \E p \in Surfaces : Attach(p, EmptyConfig)
    \/ \E p \in Surfaces : AttachNull(p)
    \/ Events({FALSE})

SpecAnySubject == Init /\ [][NextAnySubject]_vars

\* ------------------------------------------------------------------ claims

Abs(n) == IF n < 0 THEN 0 - n ELSE n

IsNote(r) == r.ev \in {"dnd-drag", "dnd-drop"}

\* The notifications the last host event made the observer dispatch.
Notes == SelectSeq(trace, IsNote)

\* The last event was one of `types` on the window and a listener heard it.
Heard(types) ==
    /\ last.op \in types
    /\ last.arg = "window"
    /\ \E l \in window : l.type = last.op

\* The last event was a pointer-down on a surface whose listener fn heard it.
HeardDown ==
    /\ last.op \in {"mousedown", "touchstart"}
    /\ last.arg \in Surfaces
    /\ last.op \in surf[last.arg].listeners

IdleShape ==
    /\ state = IdleState
    /\ defer = NoTimer
    /\ timers = {}
    /\ initial = NoPoint
    /\ current = NoPoint

\* C1: a move received while Pending whose |dx| + |dy| reaches the threshold
\* starts the drag in that step (the timer is cleared, one "dnd-drag" is
\* dispatched), whatever the signs of dx and dy.
C1_ThresholdMoveStartsDrag ==
    ( /\ Heard({"mousemove", "touchmove"})
      /\ last.from = "Pending"
      /\ Abs(state.dx) + Abs(state.dy) >= detach )
    => ( /\ Mode(World) = "Dragging"
         /\ Notes = <<[ev |-> "dnd-drag", detail |-> state]>> )

\* C2: a cancel event received while a gesture is active (contextmenu,
\* touchcancel, a touchstart heard by the window, a pointer-down heard by an
\* attached surface) dispatches exactly one "dnd-drop" with canceled = true
\* and leaves the controller idle.
C2_CancelDropsCanceledThenIdle ==
    ( /\ last.from # "Idle"
      /\ \/ Heard({"contextmenu", "touchcancel", "touchstart"})
         \/ HeardDown )
    => ( /\ Len(Notes) = 1
         /\ Notes[1].ev = "dnd-drop"
         /\ Notes[1].detail.canceled
         /\ IdleShape )

\* C3: a pointer-up received while Pending dispatches nothing and leaves the
\* state idle, with no timer armed.
C3_PendingReleaseIsSilent ==
    (Heard({"mouseup", "touchend"}) /\ last.from = "Pending")
    => (Notes = <<>> /\ IdleShape)

\* A release from Pending after move() had run below the threshold.
C3_Witness ==
    /\ Heard({"mouseup", "touchend"})
    /\ last.from = "Pending"
    /\ ~last.unmoved

\* C4: when the timer fires in a gesture that saw no move, exactly one
\* "dnd-drag" with delta (0,0) is dispatched and no timer is left; a pointer-up
\* received while Dragging dispatches exactly one "dnd-drop" with canceled =
\* false and leaves the state idle.
C4_TimerDragThenDrop ==
    /\ (last.op = "timeout" /\ last.from = "Pending" /\ last.unmoved)
        => ( /\ Notes = <<[ev |-> "dnd-drag",
                          detail |-> [props |-> state.props, dx |-> 0,
                                      dy |-> 0, canceled |-> FALSE]]>>
             /\ state.props # null
             /\ Mode(World) = "Dragging"
             /\ timers = {} )
    /\ (Heard({"mouseup", "touchend"}) /\ last.from = "Dragging")
        => ( /\ Len(Notes) = 1
             /\ Notes[1].ev = "dnd-drop"
             /\ ~Notes[1].detail.canceled
             /\ Notes[1].detail.props # null
             /\ IdleShape )

\* The timer has just fired in a gesture in which move() had not run.
C4_Witness ==
    /\ last.op = "timeout"
    /\ last.from = "Pending"
    /\ last.unmoved
    /\ Len(Notes) = 1

\* The order the controller's steps must keep, from the phase the gesture was
\* in: a gesture starts only after the one before it was cleaned up, "dnd-drag"
\* and "dnd-drop" come only before the gesture's "dnd-drop", cleanup ends it.
RECURSIVE OrderKept(_, _)
OrderKept(ph, tr) ==
    IF tr = <<>> THEN TRUE
    ELSE LET ev == Head(tr).ev IN
         CASE ev = "start" ->
                ph \in {"none", "cleaned"} /\ OrderKept("started", Tail(tr))
           [] ev = "dnd-drag" ->
                ph \in {"started", "dragged"} /\ OrderKept("dragged", Tail(tr))
           [] ev = "dnd-drop" ->
                ph \in {"started", "dragged"} /\ OrderKept("dropped", Tail(tr))
           [] ev = "cleanup" ->
                /\ ph \in {"started", "dragged", "dropped"}
                /\ OrderKept("cleaned", Tail(tr))

\* C5: in every step, the notifications of a gesture are "dnd-drag"s followed
\* by at most one "dnd-drop", nothing is dispatched for a gesture after its
\* "dnd-drop", and a gesture starts only once the one before it is cleaned up.
C5_NotificationOrder == [][OrderKept(phase, trace')]_vars

\* A gesture that was Dragging has been dropped by a mouseup and cleaned up.
C5_Witness ==
    /\ Heard({"mouseup"})
    /\ last.from = "Dragging"
    /\ phase = "cleaned"
    /\ Len(Notes) = 1

\* The threshold and delay the surface was attached with.
ThresholdOf(p) ==
    IF surf[p].config.detach = undefined THEN DefaultDetach
    ELSE surf[p].config.detach

DelayOf(p) ==
    IF surf[p].config.delay = undefined THEN DefaultDelay
    ELSE surf[p].config.delay

\* C6: while a gesture of a surface is in progress, the threshold in effect is
\* the one that surface was attached with, and the timer armed for it has that
\* surface's delay.
C6_SurfaceKeepsItsConfig ==
    (state.props # null)
    => ( /\ detach = ThresholdOf(state.props)
         /\ \A t \in timers : t.delay = DelayOf(state.props) )

\* C7: after the function init() returned has run, the window has none of the
\* listeners init() registered.
C7_TeardownRemovesEveryListener ==
    (last.op = "teardown") => (window = {})

\* C8: a destructor (of init or of draggable) called again right after itself
\* changes neither the listeners nor the controller's memory, and raises no
\* fault.
C8_DestructorIdempotent ==
    [][last'.rep =>
        ( /\ UNCHANGED <<state, current, initial, defer, detach, style, body,
                         timers, window, surf>>
          /\ thrown' = "none" )]_vars

\* The destructor of a surface has just been called a second time.
C8_Witness ==
    /\ last.rep
    /\ last.op = "detach"
    /\ surf[last.arg].listeners = {}

\* C9: whenever no gesture is in progress, the body has the selection styles
\* it had when the last gesture started and the style slot holds the "none"
\* values again; while one is in progress the slot holds the body's values.
C9_SelectionStyleRestored ==
    /\ (state.props = null) => (body = bodyBefore /\ style = NoneStyle)
    /\ (state.props # null) => (style = bodyBefore)

\* A gesture has been canceled and cleaned up, and the body has the
\* application's styles.
C9_Witness ==
    /\ Heard({"contextmenu"})
    /\ last.from # "Idle"
    /\ phase = "cleaned"
    /\ body = BodyStyle

\* C10: draggable() raises no error, attaches the surface, and a config that
\* sets no delay gives delay 50, one that sets no threshold gives threshold 2.
C10_DefaultsWithoutConfig ==
    (last.op = "draggable")
    => ( /\ thrown = "none"
         /\ surf[last.arg].attached
         /\ (surf[last.arg].config.delay = undefined
                => surf[last.arg].delay = DefaultDelay)
         /\ (surf[last.arg].config.detach = undefined
                => detach = DefaultDetach) )

HasEv(tr, ev) == \E i \in DOMAIN tr : tr[i].ev = ev

\* Every listener init() registers is on the window.
Installed == init(World).window = window

\* C11: when the timer starts the drag, the "dnd-drag" it dispatches carries
\* the last pointer position seen (that of the last move, or of the pointer-down
\* when there was none) minus the pointer-down position.
C11_TimerDragCarriesCurrentDelta ==
    [][(last'.op = "timeout" /\ Mode(World) = "Pending")
        => LET seen == IF current = NoPoint THEN initial ELSE current IN
           /\ Len(trace') = 1
           /\ trace'[1].ev = "dnd-drag"
           /\ trace'[1].detail.dx = seen.x - initial.x
           /\ trace'[1].detail.dy = seen.y - initial.y]_vars

\* C12: in every reachable state, whatever subjects draggable() was given
\* (null included), state.props is non-null exactly while a gesture is in
\* progress (then a timer is armed or the drag has started, and the selection
\* is suppressed), and while it is null the delta is zero, canceled is false,
\* no timer is armed and the body has its unsuppressed style.
C12_SubjectIffGesture ==
    /\ (state.props # null) <=> (phase \in {"started", "dragged"})
    /\ (state.props # null)
        => ( /\ body = NoneStyle
             /\ \/ defer # NoTimer /\ \E t \in timers : timers = {t} /\ t.id = defer
                \/ defer = NoTimer /\ timers = {} )
    /\ (state.props = null)
        => ( /\ state.dx = 0
             /\ state.dy = 0
             /\ ~state.canceled
             /\ defer = NoTimer
             /\ timers = {}
             /\ body = BodyStyle )

\* C13: at most one timer is pending, it is the one defer names and belongs to
\* the gesture in progress; none is pending while idle (every terminal
\* transition clears it); the callback only ever runs in a Pending gesture, and
\* leaves no timer behind.
C13_SingleTimer ==
    /\ Cardinality(timers) <= 1
    /\ \A t \in timers : t.id = defer /\ state.props # null
    /\ (defer # NoTimer) => (\E t \in timers : t.id = defer)
    /\ (state.props = null) => (timers = {} /\ defer = NoTimer)
    /\ (last.op = "timeout") => (last.from = "Pending" /\ timers = {})

\* A cancel has ended a Pending gesture, whose timer is gone.
C13_Witness ==
    /\ Heard({"contextmenu", "touchcancel"})
    /\ last.from = "Pending"
    /\ timers = {}

\* C14: while Dragging no timer is pending (the move that starts the drag
\* clears it); a gesture that is Dragging does not become Pending again; once
\* Dragging, every move is notified, whatever its delta.
C14_StartPathsExclusive ==
    /\ (Mode(World) = "Dragging") => (timers = {})
    /\ (last.from = "Dragging" /\ ~HasEv(trace, "start"))
        => (Mode(World) # "Pending")
    /\ (Heard({"mousemove", "touchmove"}) /\ last.from = "Dragging")
        => (Len(Notes) = 1 /\ Notes[1].ev = "dnd-drag")
    /\ (last.op = "timeout") => (last.from = "Pending")

\* A move has started the drag by reaching the threshold.
C14_Witness ==
    /\ Heard({"mousemove", "touchmove"})
    /\ last.from = "Pending"
    /\ Mode(World) = "Dragging"

\* C15: whether or not the dispatch faults, a pointer-up, contextmenu,
\* touchcancel or second touchstart received in a Pending or Dragging gesture
\* leaves the controller idle: state reset, no timer, selection restored.
C15_TerminalEventsReachIdle ==
    ( /\ last.from # "Idle"
      /\ \/ Heard({"mouseup", "touchend", "contextmenu", "touchcancel",
                   "touchstart"})
         \/ /\ last.op = "touchstart"
            /\ last.arg \in Surfaces
            /\ \E l \in window : l.type = "touchstart" )
    => ( /\ IdleShape
         /\ body = bodyBefore
         /\ style = NoneStyle )

\* C16: with init()'s listeners installed, a pointer-down on an attached
\* surface during a gesture dispatches exactly one "dnd-drop" with canceled =
\* true and leaves the controller idle, no timer armed, selection restored.
C16_InterruptingDownOnlyCancels ==
    (HeardDown /\ last.from # "Idle" /\ Installed)
    => ( /\ Len(Notes) = 1
         /\ Notes[1].ev = "dnd-drop"
         /\ Notes[1].detail.canceled
         /\ IdleShape
         /\ body = bodyBefore
         /\ style = NoneStyle )

\* C17: a move to (x, y) received while Dragging dispatches exactly one
\* "dnd-drag" whose delta is (x, y) minus the pointer-down position, which
\* stays what it was; a pointer-up received while Dragging dispatches a
\* "dnd-drop" that carries the delta the state had, that of the last move.
C17_DragDeltaFromDownPosition ==
    [][/\ \A type \in {"mousemove", "touchmove"}, x \in Coord, y \in Coord :
            ( /\ Mode(World) = "Dragging"
              /\ \E l \in window : l.type = type
              /\ last'.op = type
              /\ PointerMove(type, x, y, FALSE) )
            => ( /\ trace' = <<[ev |-> "dnd-drag",
                                detail |-> [props |-> state.props,
                                            dx |-> x - initial.x,
                                            dy |-> y - initial.y,
                                            canceled |-> FALSE]]>>
                 /\ initial' = initial )
       /\ ( /\ last'.op \in {"mouseup", "touchend"}
            /\ Mode(World) = "Dragging"
            /\ \E l \in window : l.type = last'.op )
            => ( /\ Len(trace') = 2
                 /\ trace'[1] = [ev |-> "dnd-drop", detail |-> state] )]_vars

\* A drag has been moved away from the pointer-down position.
C17_Witness ==
    /\ Heard({"mousemove", "touchmove"})
    /\ last.from = "Dragging"
    /\ initial # [x |-> 0, y |-> 0]
    /\ state.dx # 0
    /\ state.dy # 0

\* The last event was one whose listener is cancel().
CancelEvent ==
    \/ last.op \in {"contextmenu", "touchcancel", "touchstart"}
    \/ last.op = "mousedown" /\ last.arg \in Surfaces

\* C18: canceled is false in every state at rest and in every "dnd-drag"; a
\* notification that carries canceled = true is a "dnd-drop" dispatched for a
\* cancel event.
C18_CanceledOnlyInCancelDrop ==
    /\ ~state.canceled
    /\ \A i \in DOMAIN Notes :
          Notes[i].detail.canceled
          => (Notes[i].ev = "dnd-drop" /\ CancelEvent)

\* A gesture follows a canceled one.
C18_Witness ==
    /\ last.op = "touchstart"
    /\ last.arg \in Surfaces
    /\ last.from # "Idle"
    /\ Mode(World) = "Pending"
    /\ HasEv(trace, "dnd-drop")

\* The events of the window, and the pointer-downs on an element that has no
\* listener of the controller.
IdleNoOpEvent ==
    \/ last.arg = "window"
       /\ last.op \in {"mousemove", "touchmove", "mouseup", "touchend",
                       "contextmenu", "touchcancel", "touchstart"}
    \/ last.arg \in Surfaces
       /\ last.op \in {"mousedown", "touchstart"}
       /\ last.op \notin surf[last.arg].listeners

\* C19: an event other than a pointer-down on an attached surface, received
\* while Idle, changes nothing of the controller, dispatches nothing and calls
\* preventDefault() on nothing.
C19_IdleEventsAreNoOps ==
    [][(Mode(World) = "Idle" /\ IdleNoOpEvent')
        => ( /\ UNCHANGED <<state, current, initial, defer, detach, style,
                            body, timers>>
             /\ trace' = <<>>
             /\ prevented' = {} )]_vars

\* A window event has been heard while Idle.
C19_Witness ==
    /\ Heard({"touchmove", "contextmenu", "mouseup"})
    /\ last.from = "Idle"

\* C20: preventDefault() is called only on a touchmove delivered during a
\* gesture, never on a mouse event, the timer callback included.
C20_PreventDefaultOnlyOnTouchMove ==
    \A ev \in prevented :
        ev.type = "touchmove" /\ ~ev.isMouse /\ last.from # "Idle"

====
